---- MODULE Spec2Model ----
(***************************************************************************)
(* State-machine model of the Checkout API client (src/lib.rs).            *)
(*                                                                         *)
(* A Client holds an environment and a username/password pair.  Every      *)
(* endpoint operation is an async method that suspends twice: once on the  *)
(* token request sent by authorize, once on the resource request.  Each    *)
(* action below is the code that runs between two suspension points.       *)
(* The remote side (token endpoint, resource endpoint, transport) is the   *)
(* environment: it answers each request with a transport failure or with   *)
(* a status code and a body.                                               *)
(***************************************************************************)
EXTENDS Integers, Sequences, FiniteSets, TLC

VARIABLES client, pc, call, trace, result, tokenRequests, resourceRequests,
          currency, decimal, amount, decoded,
          input, parsed

\* The client and its callers.
clientVars == <<client, pc, call, trace, result, tokenRequests, resourceRequests>>
\* A caller converting an amount (types/currency.rs).
amountVars == <<currency, decimal, amount, decoded>>
\* A caller parsing an environment name (Environment::from_str).
environmentVars == <<input, parsed>>

vars == <<clientVars, amountVars, environmentVars>>

(***************************************************************************)
(* Bounds.                                                                 *)
(***************************************************************************)
\* Number of endpoint operation calls issued on the client in one run.
MaxCalls == 3

\* Caller tasks that share the client.  Spec drives MainTask alone, one call
\* after the other; SpecConcurrent drives both.
Tasks == {"t1", "t2"}
MainTask == "t1"

(***************************************************************************)
(* Status codes (reqwest::StatusCode) the code names, and the ones the     *)
(* remote side answers with in this model.                                 *)
(***************************************************************************)
OK == 200
CREATED == 201
ACCEPTED == 202
UNAUTHORIZED == 401
UNPROCESSABLE_ENTITY == 422
TOO_MANY_REQUESTS == 429

TokenStatuses == {200, 201, 204, 401, 500}
ResourceStatuses == {200, 201, 202, 204, 401, 418, 422, 429, 500}

\* Mutant: only 200 counts as a success.
is_success_only_ok(status) == status = 200

\* StatusCode::is_success: 200 <= status < 300
is_success(status) == status >= 200 /\ status < 300

(***************************************************************************)
(* Environment                                                             *)
(***************************************************************************)
Environments == {"Production", "Sandbox"}

api_url(environment) ==
    IF environment = "Sandbox" THEN "https://api.sandbox.checkout.com"
    ELSE "https://api.checkout.com"

access_url(environment) ==
    IF environment = "Sandbox" THEN "https://access.sandbox.checkout.com"
    ELSE "https://access.checkout.com"

(***************************************************************************)
(* Response bodies.  A body is the raw text on the wire; from_str is       *)
(* serde_json's parse of it, given as a table over the texts of the model. *)
(* A JSON object is a record, a JSON array a sequence.                     *)
(***************************************************************************)
EmptyBody == ""
TeapotText == "I'm a teapot"
TokenJsonA == "{\"access_token\":\"tok_A\",\"token_type\":\"Bearer\",\"expires_in\":3600}"
TokenJsonB == "{\"access_token\":\"tok_B\",\"token_type\":\"Bearer\",\"expires_in\":3600}"
ErrorJson == "{\"request_id\":\"req_1\",\"error_type\":\"request_invalid\",\"error_codes\":[\"card_expired\",\"amount_invalid\"]}"
ProcessedJson == "{\"id\":\"pay_1\",\"action_id\":\"act_1\",\"amount\":2000,\"currency\":\"USD\",\"approved\":true,\"status\":\"Authorized\",\"response_code\":\"10000\",\"processed_on\":\"2025-06-01T10:00:00Z\",\"source\":{\"type\":\"card\",\"expiry_month\":6,\"expiry_year\":2025,\"last4\":\"4242\",\"fingerprint\":\"F31828\",\"bin\":\"424242\",\"card_category\":\"CONSUMER\"}}"
PendingJson == "{\"id\":\"pay_2\",\"status\":\"Pending\",\"reference\":\"ORD-1\"}"
DetailsJson == "{\"id\":\"pay_1\",\"requested_on\":\"2025-06-01T10:00:00Z\",\"amount\":2000,\"currency\":\"USD\",\"payment_type\":\"Regular\",\"approved\":true,\"status\":\"Captured\"}"
ActionsJson == "[{\"id\":\"act_1\",\"type\":\"Authorization\",\"processed_on\":\"2025-06-01T10:00:00Z\",\"amount\":2000,\"response_code\":\"10000\",\"metadata\":{}}]"
ActionJson == "{\"action_id\":\"act_2\",\"reference\":\"ORD-1\"}"

TokenBodies == {TokenJsonA, TokenJsonB, ErrorJson, EmptyBody}
ResourceBodies ==
    {ProcessedJson, PendingJson, DetailsJson, ActionsJson, ActionJson,
     ErrorJson, EmptyBody, TeapotText}

JsonObject(fields) == [kind |-> "object", fields |-> fields]
JsonArray(items) == [kind |-> "array", items |-> items]
JsonInvalid == [kind |-> "invalid"]

CardSourceFields ==
    [type |-> "card", expiry_month |-> 6, expiry_year |-> 2025, last4 |-> "4242",
     fingerprint |-> "F31828", bin |-> "424242", card_category |-> "CONSUMER"]

from_str(raw) ==
    CASE raw = TokenJsonA ->
           JsonObject([access_token |-> "tok_A", token_type |-> "Bearer",
                       expires_in |-> 3600])
      [] raw = TokenJsonB ->
           JsonObject([access_token |-> "tok_B", token_type |-> "Bearer",
                       expires_in |-> 3600])
      [] raw = ErrorJson ->
           JsonObject([request_id |-> "req_1", error_type |-> "request_invalid",
                       error_codes |-> <<"card_expired", "amount_invalid">>])
      [] raw = ProcessedJson ->
           JsonObject([id |-> "pay_1", action_id |-> "act_1", amount |-> 2000,
                       currency |-> "USD", approved |-> TRUE,
                       status |-> "Authorized", response_code |-> "10000",
                       processed_on |-> "2025-06-01T10:00:00Z",
                       source |-> CardSourceFields])
      [] raw = PendingJson ->
           JsonObject([id |-> "pay_2", status |-> "Pending", reference |-> "ORD-1"])
      [] raw = DetailsJson ->
           JsonObject([id |-> "pay_1", requested_on |-> "2025-06-01T10:00:00Z",
                       amount |-> 2000, currency |-> "USD",
                       payment_type |-> "Regular", approved |-> TRUE,
                       status |-> "Captured"])
      [] raw = ActionsJson ->
           JsonArray(<<[id |-> "act_1", type |-> "Authorization",
                        processed_on |-> "2025-06-01T10:00:00Z", amount |-> 2000,
                        response_code |-> "10000", metadata |-> <<>>]>>)
      [] raw = ActionJson ->
           JsonObject([action_id |-> "act_2", reference |-> "ORD-1"])
      [] OTHER -> JsonInvalid

(***************************************************************************)
(* Deserialization (serde derive): a struct is read from a JSON object     *)
(* that has every non-Option field; Option fields that are absent become   *)
(* None; fields the struct does not name are ignored.                      *)
(***************************************************************************)
None == [none |-> TRUE]

DeOk(v) == [ok |-> TRUE, value |-> v]
DeFail == [ok |-> FALSE]

DeStruct(doc, required, optional) ==
    IF doc.kind = "object" /\ required \subseteq DOMAIN doc.fields
    THEN DeOk([f \in required \cup optional |->
                 IF f \in DOMAIN doc.fields THEN doc.fields[f] ELSE None])
    ELSE DeFail

\* Mutant: the error codes are collected in reverse order.
ApiErrorReversedCodes(doc) ==
    LET e == DeStruct(doc, {"request_id", "error_type", "error_codes"}, {}) IN
    IF ~e.ok THEN e
    ELSE LET codes == e.value.error_codes IN
         DeOk([e.value EXCEPT !.error_codes =
                 [i \in DOMAIN codes |-> codes[Len(codes) + 1 - i]]])

ApiError(doc) == DeStruct(doc, {"request_id", "error_type", "error_codes"}, {})

OAuthTokenResponse(doc) == DeStruct(doc, {"access_token"}, {})

PaymentProcessedSource(fields) ==
    IF "type" \in DOMAIN fields /\ fields.type = "card"
    THEN DeStruct(JsonObject(fields),
                  {"type", "expiry_month", "expiry_year", "last4", "fingerprint",
                   "bin", "card_category"},
                  {"id", "billing_address", "phone", "name", "scheme", "card_type",
                   "issuer", "issuer_country", "product_id", "product_type",
                   "cvv_result", "payouts", "fast_funds",
                   "payment_account_reference"})
    ELSE DeFail

\* A struct with an Option<PaymentProcessedSource> field named source.
DeWithSource(doc, required, optional) ==
    LET base == DeStruct(doc, required, optional \cup {"source"}) IN
    IF ~base.ok \/ base.value.source = None THEN base
    ELSE LET src == PaymentProcessedSource(doc.fields.source) IN
         IF src.ok THEN DeOk([base.value EXCEPT !.source = src.value])
         ELSE DeFail

\* Mutant: the source of a processed payment is skipped when it is read.
PaymentProcessedSkippingSource(doc) ==
    LET base ==
          DeStruct(doc,
              {"id", "action_id", "amount", "currency", "approved", "status",
               "response_code", "processed_on"},
              {"auth_code", "response_summary", "3ds", "risk", "customer",
               "reference", "processing", "eci", "scheme_id", "_links", "source"})
    IN IF base.ok THEN DeOk([base.value EXCEPT !.source = None]) ELSE base

PaymentProcessed(doc) ==
    DeWithSource(doc,
        {"id", "action_id", "amount", "currency", "approved", "status",
         "response_code", "processed_on"},
        {"auth_code", "response_summary", "3ds", "risk", "customer", "reference",
         "processing", "eci", "scheme_id", "_links"})

PendingPayment(doc) ==
    DeStruct(doc, {"id", "status"}, {"customer", "reference", "3ds", "_links"})

PaymentDetails(doc) ==
    DeWithSource(doc,
        {"id", "requested_on", "amount", "currency", "payment_type", "approved",
         "status"},
        {"destination", "reference", "description", "3ds", "risk", "customer",
         "billing_descriptor", "shipping", "payment_ip", "recipient", "metadata",
         "eci", "scheme_id", "actions", "_links"})

Action(fields) ==
    DeStruct(JsonObject(fields),
        {"id", "type", "processed_on", "amount", "response_code", "metadata"},
        {"approved", "auth_code", "response_summary", "reference", "processing"})

\* GetPaymentActionsResponse = Vec<Action>
GetPaymentActionsResponse(doc) ==
    IF doc.kind = "array" /\ \A i \in DOMAIN doc.items : Action(doc.items[i]).ok
    THEN DeOk([i \in DOMAIN doc.items |-> Action(doc.items[i]).value])
    ELSE DeFail

CapturePaymentResponse(doc) == DeStruct(doc, {"action_id"}, {"reference", "_links"})
RefundPaymentResponse(doc) == DeStruct(doc, {"action_id"}, {"reference", "_links"})
VoidPaymentResponse(doc) == DeStruct(doc, {"action_id"}, {"reference", "_links"})

(***************************************************************************)
(* Results and errors.                                                     *)
(***************************************************************************)
Ok(v) == [tag |-> "Ok", value |-> v]
Err(e) == [tag |-> "Err", error |-> e]
NoResult == [tag |-> "None"]

Api(apiError) == [variant |-> "Api", api |-> apiError]
Unauthorized == [variant |-> "Unauthorized"]
InvalidData(apiError) == [variant |-> "InvalidData", api |-> apiError]
TooManyRequests == [variant |-> "TooManyRequests"]
Unknown(status, body) == [variant |-> "Unknown", status |-> status, body |-> body]
\* From<ReqwestError>; cause is the kind of the reqwest error.
Transport(cause) == [variant |-> "Transport", cause |-> cause]

(***************************************************************************)
(* What the remote side can answer to one request: the send fails with a   *)
(* connection error or a timeout, or a response arrives with a status and  *)
(* a body; reading the body can itself fail (readable = FALSE).            *)
(***************************************************************************)
SendFailures == {[kind |-> "error", cause |-> c] : c \in {"connect", "timeout"}}

Responses(statuses, bodies) ==
    {[kind |-> "response", status |-> s, body |-> b, readable |-> TRUE] :
        s \in statuses, b \in bodies}
    \cup
    {[kind |-> "response", status |-> s, body |-> EmptyBody, readable |-> FALSE] :
        s \in statuses}

TokenOutcomes == SendFailures \cup Responses(TokenStatuses, TokenBodies)
ResourceOutcomes == SendFailures \cup Responses(ResourceStatuses, ResourceBodies)

\* serde_json::from_slice::<T>: the type parameter T is given by name.
Deserialize(ty, doc) ==
    CASE ty = "ApiError" -> ApiError(doc)
      [] ty = "OAuthTokenResponse" -> OAuthTokenResponse(doc)
      [] ty = "PaymentProcessed" -> PaymentProcessed(doc)
      [] ty = "PendingPayment" -> PendingPayment(doc)
      [] ty = "GetPaymentDetailsResponse" -> PaymentDetails(doc)
      [] ty = "GetPaymentActionsResponse" -> GetPaymentActionsResponse(doc)
      [] ty = "CapturePaymentResponse" -> CapturePaymentResponse(doc)
      [] ty = "RefundPaymentResponse" -> RefundPaymentResponse(doc)
      [] ty = "VoidPaymentResponse" -> VoidPaymentResponse(doc)

\* Mutant: the decoded body is unwrapped, so a body that does not decode
\* ends the caller with a panic.
json_unwrapping(response, ty) ==
    IF ~response.readable THEN Err(Transport("body"))
    ELSE LET d == Deserialize(ty, from_str(response.body)) IN
         IF d.ok THEN Ok(d.value) ELSE [tag |-> "Panic"]

\* Response::json::<T>(): read the whole body, then decode it as T.
json(response, ty) ==
    IF ~response.readable THEN Err(Transport("body"))
    ELSE LET d == Deserialize(ty, from_str(response.body)) IN
         IF d.ok THEN Ok(d.value) ELSE Err(Transport("decode"))

\* Response::text(): read the whole body as text.
text(response) ==
    IF ~response.readable THEN Err(Transport("body")) ELSE Ok(response.body)

(***************************************************************************)
(* Requests.  An endpoint operation is invoked with a payment id and/or a  *)
(* typed body; to_string is serde_json's serialization of the body, given  *)
(* as a table over the request values of the model.                        *)
(***************************************************************************)
PaymentIds == {"pay_1", "pay_2"}

CardPaymentRequest ==
    [source |-> [type |-> "card", number |-> "4242424242424242",
                 expiry_month |-> 6, expiry_year |-> 2025],
     amount |-> 2000, currency |-> "USD", payment_type |-> "Regular",
     merchant_initiated |-> FALSE, processing_channel_id |-> "pc_1"]
CapturePaymentBody == [amount |-> 2000, reference |-> "ORD-1", metadata |-> None]
RefundPaymentBody == [amount |-> 500, reference |-> "ORD-1", metadata |-> None]
VoidPaymentBody == [reference |-> "ORD-1", metadata |-> None]

to_string(body) ==
    CASE body = CardPaymentRequest ->
           "{\"source\":{\"type\":\"card\",\"number\":\"4242424242424242\",\"expiry_month\":6,\"expiry_year\":2025},\"amount\":2000,\"currency\":\"USD\",\"payment_type\":\"Regular\",\"merchant_initiated\":false,\"processing_channel_id\":\"pc_1\"}"
      [] body = CapturePaymentBody ->
           "{\"amount\":2000,\"reference\":\"ORD-1\",\"metadata\":null}"
      [] body = RefundPaymentBody ->
           "{\"amount\":500,\"reference\":\"ORD-1\",\"metadata\":null}"
      [] body = VoidPaymentBody ->
           "{\"reference\":\"ORD-1\",\"metadata\":null}"

GetOps == {"get_payment_details", "get_payment_actions"}
PostOps == {"capture_payment", "refund_payment", "void_payment"}
Ops == {"create_payment"} \cup GetOps \cup PostOps

BodyOf(op) ==
    CASE op = "capture_payment" -> CapturePaymentBody
      [] op = "refund_payment" -> RefundPaymentBody
      [] op = "void_payment" -> VoidPaymentBody

\* What a caller can invoke: the operation and its arguments.
Invocations ==
    {[op |-> "create_payment", request |-> CardPaymentRequest]}
    \cup {[op |-> o, payment_id |-> p] : o \in GetOps, p \in PaymentIds}
    \cup {[op |-> o, payment_id |-> p, body |-> BodyOf(o)] :
            o \in PostOps, p \in PaymentIds}

NoBody == [none |-> TRUE]

\* The request authorize sends to the token endpoint.
TokenRequest(cl) ==
    [endpoint |-> "token", method |-> "POST",
     url |-> access_url(cl.environment) \o "/connect/token",
     basic_auth |-> <<cl.username, cl.password>>,
     form |-> [grant_type |-> "client_credentials", scope |-> "gateway"]]

\* Mutant: every url is formatted from the Production api url.
ResourceUrlProduction(cl, inv) ==
    CASE inv.op = "create_payment" ->
           api_url("Production") \o "/payments"
      [] inv.op = "get_payment_details" ->
           api_url("Production") \o "/payments/" \o inv.payment_id
      [] inv.op = "get_payment_actions" ->
           api_url("Production") \o "/payments/" \o inv.payment_id \o "/actions"
      [] inv.op = "capture_payment" ->
           api_url("Production") \o "/payments/" \o inv.payment_id \o "/captures"
      [] inv.op = "refund_payment" ->
           api_url("Production") \o "/payments/" \o inv.payment_id \o "/refunds"
      [] inv.op = "void_payment" ->
           api_url("Production") \o "/payments/" \o inv.payment_id \o "/voids"

\* The url each endpoint operation formats.
ResourceUrl(cl, inv) ==
    CASE inv.op = "create_payment" ->
           api_url(cl.environment) \o "/payments"
      [] inv.op = "get_payment_details" ->
           api_url(cl.environment) \o "/payments/" \o inv.payment_id
      [] inv.op = "get_payment_actions" ->
           api_url(cl.environment) \o "/payments/" \o inv.payment_id \o "/actions"
      [] inv.op = "capture_payment" ->
           api_url(cl.environment) \o "/payments/" \o inv.payment_id \o "/captures"
      [] inv.op = "refund_payment" ->
           api_url(cl.environment) \o "/payments/" \o inv.payment_id \o "/refunds"
      [] inv.op = "void_payment" ->
           api_url(cl.environment) \o "/payments/" \o inv.payment_id \o "/voids"

\* Mutant: the resource request carries a fixed token, not the one authorize
\* has just returned.
ResourceRequestFixedToken(cl, inv, token) ==
    [endpoint |-> "resource",
     method |-> IF inv.op \in GetOps THEN "GET" ELSE "POST",
     url |-> ResourceUrl(cl, inv),
     bearer_auth |-> "tok_A",
     json |-> CASE inv.op = "create_payment" -> to_string(inv.request)
                [] inv.op \in GetOps -> NoBody
                [] inv.op \in PostOps -> to_string(inv.body)]

\* Mutant: the resource request carries the Basic credentials as well.
ResourceRequestWithCredentials(cl, inv, token) ==
    [endpoint |-> "resource",
     method |-> IF inv.op \in GetOps THEN "GET" ELSE "POST",
     url |-> ResourceUrl(cl, inv),
     bearer_auth |-> token,
     basic_auth |-> <<cl.username, cl.password>>,
     json |-> CASE inv.op = "create_payment" -> to_string(inv.request)
                [] inv.op \in GetOps -> NoBody
                [] inv.op \in PostOps -> to_string(inv.body)]

\* The request send_get_request / send_post_request / send_post_request_2
\* build once authorize has returned the token.
ResourceRequest(cl, inv, token) ==
    [endpoint |-> "resource",
     method |-> IF inv.op \in GetOps THEN "GET" ELSE "POST",
     url |-> ResourceUrl(cl, inv),
     bearer_auth |-> token,
     json |-> CASE inv.op = "create_payment" -> to_string(inv.request)
                [] inv.op \in GetOps -> NoBody
                [] inv.op \in PostOps -> to_string(inv.body)]

Sent(request) == [ev |-> "send", request |-> request]
Received(outcome) == [ev |-> "recv", outcome |-> outcome]

(***************************************************************************)
(* The code that runs when a response (or a send failure) arrives.         *)
(***************************************************************************)
\* Mutant: every 2xx status of the token endpoint is taken as a success.
token_from_any_success(response) ==
    IF is_success(response.status)
    THEN LET body == json(response, "OAuthTokenResponse") IN
         IF body.tag = "Ok" THEN Ok(body.value.access_token) ELSE body
    ELSE Err(Unauthorized)

\* Mutant: a refusal of the token endpoint is reported with its status and
\* body.
token_from_reporting_status(response) ==
    IF response.status = OK
    THEN LET body == json(response, "OAuthTokenResponse") IN
         IF body.tag = "Ok" THEN Ok(body.value.access_token) ELSE body
    ELSE Err(Unknown(response.status, response.body))

\* Mutant: a 200 whose body does not decode gives an empty token.
token_from_empty_on_decode_failure(response) ==
    IF response.status = OK
    THEN LET body == json(response, "OAuthTokenResponse") IN
         IF body.tag = "Ok" THEN Ok(body.value.access_token) ELSE Ok("")
    ELSE Err(Unauthorized)

\* authorize, lines 190-197: the match on the token response's status.
token_from(response) ==
    IF response.status = OK
    THEN LET body == json(response, "OAuthTokenResponse") IN
         IF body.tag = "Ok" THEN Ok(body.value.access_token) ELSE body
    ELSE Err(Unauthorized)

\* Mutant: a failed send of the token request is reported as Unauthorized.
authorize_masking_failure(outcome) ==
    IF outcome.kind = "error" THEN Err(Unauthorized)
    ELSE token_from(outcome)

\* authorize, from the resumption of send().await to its return.
authorize(outcome) ==
    IF outcome.kind = "error" THEN Err(Transport(outcome.cause))
    ELSE token_from(outcome)

\* send_get_request, from the resumption of send().await to its return.
send_get_request(outcome, R) ==
    IF outcome.kind = "error" THEN Err(Transport(outcome.cause))
    ELSE IF is_success(outcome.status) THEN json(outcome, R)
         ELSE LET e == json(outcome, "ApiError") IN
              IF e.tag = "Ok" THEN Err(Api(e.value)) ELSE e

\* Mutant: send_post_request tells 401 and 429 apart from the other error
\* statuses.
send_post_request_by_status(outcome, R) ==
    IF outcome.kind = "error" THEN Err(Transport(outcome.cause))
    ELSE IF is_success(outcome.status) THEN json(outcome, R)
    ELSE IF outcome.status = UNAUTHORIZED THEN Err(Unauthorized)
    ELSE IF outcome.status = TOO_MANY_REQUESTS THEN Err(TooManyRequests)
         ELSE LET e == json(outcome, "ApiError") IN
              IF e.tag = "Ok" THEN Err(Api(e.value)) ELSE e

\* send_post_request, from the resumption of send().await to its return.
send_post_request(outcome, R) ==
    IF outcome.kind = "error" THEN Err(Transport(outcome.cause))
    ELSE IF is_success(outcome.status) THEN json(outcome, R)
         ELSE LET e == json(outcome, "ApiError") IN
              IF e.tag = "Ok" THEN Err(Api(e.value)) ELSE e

\* send_post_request_2: the response itself, or the send failure.
send_post_request_2(outcome) ==
    IF outcome.kind = "error" THEN Err(Transport(outcome.cause)) ELSE Ok(outcome)

Processed(body) == [variant |-> "Processed", body |-> body]
Pending(body) == [variant |-> "Pending", body |-> body]

\* Mutant: the success body is decoded as the untagged CreatePaymentResponse,
\* so the variant follows the shape of the body and not the status.
classify_untagged(response) ==
    LET status == response.status IN
    CASE status \in {CREATED, ACCEPTED} ->
           LET processed == json(response, "PaymentProcessed")
               pending == json(response, "PendingPayment")
           IN IF processed.tag = "Ok" THEN Ok(Processed(processed.value))
              ELSE IF pending.tag = "Ok" THEN Ok(Pending(pending.value))
              ELSE pending
      [] status = UNAUTHORIZED -> Err(Unauthorized)
      [] status = UNPROCESSABLE_ENTITY ->
           LET body == json(response, "ApiError") IN
           IF body.tag = "Ok" THEN Err(InvalidData(body.value)) ELSE body
      [] status = TOO_MANY_REQUESTS -> Err(TooManyRequests)
      [] OTHER ->
           LET body == text(response) IN
           IF body.tag = "Ok" THEN Err(Unknown(status, body.value)) ELSE body

\* Mutant: a 201 whose body does not read as PaymentProcessed is read as
\* PendingPayment.
classify_pending_fallback(response) ==
    LET status == response.status IN
    CASE status = CREATED ->
           LET body == json(response, "PaymentProcessed")
               pending == json(response, "PendingPayment")
           IN IF body.tag = "Ok" THEN Ok(Processed(body.value))
              ELSE IF pending.tag = "Ok" THEN Ok(Pending(pending.value))
              ELSE body
      [] status = ACCEPTED ->
           LET body == json(response, "PendingPayment") IN
           IF body.tag = "Ok" THEN Ok(Pending(body.value)) ELSE body
      [] status = UNAUTHORIZED -> Err(Unauthorized)
      [] status = UNPROCESSABLE_ENTITY ->
           LET body == json(response, "ApiError") IN
           IF body.tag = "Ok" THEN Err(InvalidData(body.value)) ELSE body
      [] status = TOO_MANY_REQUESTS -> Err(TooManyRequests)
      [] OTHER ->
           LET body == text(response) IN
           IF body.tag = "Ok" THEN Err(Unknown(status, body.value)) ELSE body

\* create_payment, lines 272-292: the match on the resource response's status.
classify(response) ==
    LET status == response.status IN
    CASE status = CREATED ->
           LET body == json(response, "PaymentProcessed") IN
           IF body.tag = "Ok" THEN Ok(Processed(body.value)) ELSE body
      [] status = ACCEPTED ->
           LET body == json(response, "PendingPayment") IN
           IF body.tag = "Ok" THEN Ok(Pending(body.value)) ELSE body
      [] status = UNAUTHORIZED -> Err(Unauthorized)
      [] status = UNPROCESSABLE_ENTITY ->
           LET body == json(response, "ApiError") IN
           IF body.tag = "Ok" THEN Err(InvalidData(body.value)) ELSE body
      [] status = TOO_MANY_REQUESTS -> Err(TooManyRequests)
      [] OTHER ->
           LET body == text(response) IN
           IF body.tag = "Ok" THEN Err(Unknown(status, body.value)) ELSE body

\* Mutant: the body is read before the status is looked at.
create_payment_body_first(outcome) ==
    LET sent == send_post_request_2(outcome) IN
    IF sent.tag = "Err" THEN sent
    ELSE IF ~sent.value.readable THEN Err(Transport("body"))
    ELSE classify(sent.value)

\* Mutant: create_payment goes through send_post_request like the other
\* POST operations.
create_payment_via_send_post_request(outcome) ==
    send_post_request(outcome, "PaymentProcessed")

\* create_payment, from the return of send_post_request_2 to its own return.
create_payment(outcome) ==
    LET sent == send_post_request_2(outcome) IN
    IF sent.tag = "Err" THEN sent ELSE classify(sent.value)

get_payment_details(outcome) == send_get_request(outcome, "GetPaymentDetailsResponse")
get_payment_actions(outcome) == send_get_request(outcome, "GetPaymentActionsResponse")
capture_payment(outcome) == send_post_request(outcome, "CapturePaymentResponse")
refund_payment(outcome) == send_post_request(outcome, "RefundPaymentResponse")
void_payment(outcome) == send_post_request(outcome, "VoidPaymentResponse")

\* The endpoint operation's return value once the resource exchange ended.
Complete(op, outcome) ==
    CASE op = "create_payment" -> create_payment(outcome)
      [] op = "get_payment_details" -> get_payment_details(outcome)
      [] op = "get_payment_actions" -> get_payment_actions(outcome)
      [] op = "capture_payment" -> capture_payment(outcome)
      [] op = "refund_payment" -> refund_payment(outcome)
      [] op = "void_payment" -> void_payment(outcome)

(***************************************************************************)
(* Amount (types/currency.rs).  A BigDecimal is an integer and a scale:    *)
(* the value int_val / 10^scale.  The model's integers are narrower than   *)
(* the program's, so the u64 of Amount is AmountBits wide here; to_u64     *)
(* tests the range against that width.                                     *)
(***************************************************************************)
AmountBits == 16
U64_MAX == 2^AmountBits - 1

Currencies ==
    {"AED", "AFN", "ALL", "AMD", "ANG", "AOA", "ARS", "AUD", "AWG", "AZN", "BAM",
     "BBD", "BDT", "BGN", "BHD", "BIF", "BMD", "BND", "BOB", "BRL", "BSD", "BTN",
     "BWP", "BYN", "BZD", "CAD", "CDF", "CHF", "CLF", "CLP", "CNY", "COP", "CRC",
     "CVE", "CZK", "DJF", "DKK", "DOP", "DZD", "EEK", "EGP", "ERN", "ETB", "EUR",
     "FJD", "FKP", "GBP", "GEL", "GHS", "GIP", "GMD", "GNF", "GTQ", "GYD", "HKD",
     "HNL", "HRK", "HTG", "HUF", "IDR", "ILS", "INR", "IQD", "IRR", "ISK", "JMD",
     "JOD", "JPY", "KES", "KGS", "KHR", "KMF", "KPW", "KRW", "KWD", "KYD", "KZT",
     "LAK", "LBP", "LKR", "LRD", "LSL", "LTL", "LVL", "LYD", "MAD", "MDL", "MGA",
     "MKD", "MMK", "MNT", "MOP", "MRO", "MUR", "MVR", "MWK", "MXN", "MYR", "MZN",
     "NAD", "NGN", "NIO", "NOK", "NPR", "NZD", "OMR", "PAB", "PEN", "PGK", "PHP",
     "PKR", "PLN", "PYG", "QAR", "RON", "RSD", "RUB", "RWF", "SAR", "SBD", "SCR",
     "SDG", "SEK", "SGD", "SHP", "SLL", "SOS", "SRD", "STD", "SVC", "SYP", "SZL",
     "THB", "TJS", "TMT", "TND", "TOP", "TRY", "TTD", "TWD", "TZS", "UAH", "UGX",
     "USD", "UYU", "UZS", "VES", "VND", "VUV", "WST", "XAF", "XCD", "XOF", "XPF",
     "YER", "ZAR", "ZMW", "ZWL"}

\* The first match arm of Amount::into and Amount::from.
ZeroDecimalCurrencies ==
    {"BIF", "CLF", "DJF", "GNF", "ISK", "JPY", "KMF", "KRW", "PYG", "RWF", "UGX",
     "VND", "VUV", "XAF", "XOF", "XPF"}

\* The second match arm of Amount::into and Amount::from.
ThreeDecimalCurrencies == {"BHD", "IQD", "JOD", "KWD", "LYD", "OMR", "TND"}

BigDecimal(int_val, scale) == [int_val |-> int_val, scale |-> scale]

\* BigDecimal::from(n) for an integer n.
BigDecimal_from(n) == BigDecimal(n, 0)

Pow10(k) == 10^k

\* PartialEq for BigDecimal: equal values, whatever the scales.
BigDecimalEq(a, b) == a.int_val * Pow10(b.scale) = b.int_val * Pow10(a.scale)

\* a * b
Mul(a, b) == BigDecimal(a.int_val * b.int_val, a.scale + b.scale)

\* The long division of a / b: one more digit of the quotient for as long as
\* there is a remainder.
RECURSIVE impl_division(_, _, _, _)
impl_division(quotient, remainder, den, scale) ==
    IF remainder = 0 THEN BigDecimal(quotient, scale)
    ELSE impl_division(quotient * 10 + (remainder * 10) \div den,
                       (remainder * 10) % den, den, scale + 1)

\* a / b for non-negative a and positive b.
Div(a, b) ==
    impl_division(a.int_val \div b.int_val, a.int_val % b.int_val, b.int_val,
                  a.scale - b.scale)

Some(v) == [none |-> FALSE, value |-> v]

\* ToPrimitive::to_u64 for BigDecimal: no value for a negative number; the
\* digits after the decimal point are cut off; no value beyond the u64 range.
to_u64(d) ==
    IF d.int_val < 0 THEN None
    ELSE IF d.int_val = 0 THEN Some(0)
    ELSE LET int == d.int_val \div Pow10(d.scale) IN
         IF int > U64_MAX THEN None ELSE Some(int)

Amount(n) == [tag |-> "Amount", value |-> n]
\* The thread has panicked (Option::unwrap on None).
Panic == [tag |-> "Panic"]
NoAmount == [tag |-> "None"]
NoDecimal == [tag |-> "None"]

unwrap(option) == IF option = None THEN Panic ELSE Amount(option.value)

\* Mutant: the three-decimal currencies are divided by 100 like the others.
Amount_into_hundredths(n, cur) ==
    IF cur \in ZeroDecimalCurrencies THEN BigDecimal_from(n)
    ELSE Div(BigDecimal_from(n), BigDecimal_from(100))

\* Mutant: the division is the integer division of the stored value.
Amount_into_whole_units(n, cur) ==
    CASE cur \in ZeroDecimalCurrencies -> BigDecimal_from(n)
      [] cur \in ThreeDecimalCurrencies -> BigDecimal_from(n \div 1000)
      [] OTHER -> BigDecimal_from(n \div 100)

\* Amount::into: the decimal value of the stored integer n in currency cur.
Amount_into(n, cur) ==
    CASE cur \in ZeroDecimalCurrencies -> BigDecimal_from(n)
      [] cur \in ThreeDecimalCurrencies ->
           Div(BigDecimal_from(n), BigDecimal_from(1000))
      [] OTHER -> Div(BigDecimal_from(n), BigDecimal_from(100))

\* Mutant: the three-decimal currencies are multiplied by 100 like the others.
Amount_from_hundredths(cur, value) ==
    IF cur \in ZeroDecimalCurrencies THEN unwrap(to_u64(value))
    ELSE unwrap(to_u64(Mul(value, BigDecimal_from(100))))

\* Amount::from: the Amount of the decimal value in currency cur, or the
\* panic of unwrap.
Amount_from(cur, value) ==
    CASE cur \in ZeroDecimalCurrencies -> unwrap(to_u64(value))
      [] cur \in ThreeDecimalCurrencies ->
           unwrap(to_u64(Mul(value, BigDecimal_from(1000))))
      [] OTHER -> unwrap(to_u64(Mul(value, BigDecimal_from(100))))

(***************************************************************************)
(* Environment::from_str (lib.rs).  A str is a sequence of characters.     *)
(***************************************************************************)
LowercaseLetters ==
    <<"a", "b", "c", "d", "e", "f", "g", "h", "i", "j", "k", "l", "m", "n", "o",
      "p", "q", "r", "s", "t", "u", "v", "w", "x", "y", "z">>
UppercaseLetters ==
    <<"A", "B", "C", "D", "E", "F", "G", "H", "I", "J", "K", "L", "M", "N", "O",
      "P", "Q", "R", "S", "T", "U", "V", "W", "X", "Y", "Z">>
Whitespace == {" ", "\t", "\n"}

IndexIn(letters, c) == CHOOSE i \in DOMAIN letters : letters[i] = c
IsIn(letters, c) == \E i \in DOMAIN letters : letters[i] = c

\* char::to_ascii_lowercase and char::to_ascii_uppercase
to_ascii_lowercase_char(c) ==
    IF IsIn(UppercaseLetters, c) THEN LowercaseLetters[IndexIn(UppercaseLetters, c)]
    ELSE c
to_ascii_uppercase_char(c) ==
    IF IsIn(LowercaseLetters, c) THEN UppercaseLetters[IndexIn(LowercaseLetters, c)]
    ELSE c

\* str::to_ascii_lowercase
to_ascii_lowercase(s) == [i \in DOMAIN s |-> to_ascii_lowercase_char(s[i])]

\* str::trim: s without its leading and trailing whitespace.
trim(s) ==
    LET kept == {i \in DOMAIN s : s[i] \notin Whitespace} IN
    IF kept = {} THEN <<>>
    ELSE SubSeq(s, CHOOSE i \in kept : \A j \in kept : i <= j,
                   CHOOSE i \in kept : \A j \in kept : i >= j)

Str_prod == <<"p", "r", "o", "d">>
Str_production == <<"p", "r", "o", "d", "u", "c", "t", "i", "o", "n">>
Str_dev == <<"d", "e", "v">>
Str_development == <<"d", "e", "v", "e", "l", "o", "p", "m", "e", "n", "t">>
Str_sandbox == <<"s", "a", "n", "d", "b", "o", "x">>
Str_staging == <<"s", "t", "a", "g", "i", "n", "g">>

ParseEnvironmentError(string) == [variant |-> "ParseEnvironmentError", string |-> string]

\* Mutant: the input is matched without being trimmed.
Environment_from_str_untrimmed(s) ==
    LET val == to_ascii_lowercase(s) IN
    CASE val \in {Str_prod, Str_production} -> Ok("Production")
      [] val \in {Str_dev, Str_development, Str_sandbox} -> Ok("Sandbox")
      [] OTHER -> Err(ParseEnvironmentError(val))

\* impl FromStr for Environment
Environment_from_str(s) ==
    LET val == trim(to_ascii_lowercase(s)) IN
    CASE val \in {Str_prod, Str_production} -> Ok("Production")
      [] val \in {Str_dev, Str_development, Str_sandbox} -> Ok("Sandbox")
      [] OTHER -> Err(ParseEnvironmentError(val))

\* str::parse
parse(s) == Environment_from_str(s)

\* impl TryFrom<String> for Environment
try_from_String(value) == parse(value)

\* impl TryFrom<&str> for Environment
try_from_str(value) == parse(value)

(***************************************************************************)
(* No client, no conversion, no parse: the values of the variables that a  *)
(* specification does not drive.                                           *)
(***************************************************************************)
NoCurrency == "none"
NoInput == <<"none">>
NotParsed == [api |-> "none"]

AmountIdle ==
    /\ currency = NoCurrency
    /\ decimal = NoDecimal
    /\ amount = NoAmount
    /\ decoded = NoDecimal

EnvironmentIdle ==
    /\ input = NoInput
    /\ parsed = NotParsed

(***************************************************************************)
(* The state machine.                                                      *)
(*   client            the Client's fields (Client::new)                   *)
(*   pc[t]             where task t's current call is suspended            *)
(*   call[t]           the operation and arguments of t's current call     *)
(*   trace[t]          the requests t's current call sent and the answers  *)
(*                     it received, in order                               *)
(*   result[t]         the value t's current call returned                 *)
(*   tokenRequests     requests the token endpoint has seen                *)
(*   resourceRequests  requests the resource endpoint has seen             *)
(***************************************************************************)
NoCall == [op |-> "none"]

Clients ==
    [environment : Environments, username : {"ck_user"}, password : {"ck_secret"}]

Init ==
    /\ client \in Clients
    /\ pc = [t \in Tasks |-> "idle"]
    /\ call = [t \in Tasks |-> NoCall]
    /\ trace = [t \in Tasks |-> <<>>]
    /\ result = [t \in Tasks |-> NoResult]
    /\ tokenRequests = 0
    /\ resourceRequests = 0
    /\ AmountIdle
    /\ EnvironmentIdle

\* The client's variables in a specification without calls.
ClientIdle ==
    /\ client = [environment |-> "Sandbox", username |-> "ck_user",
                 password |-> "ck_secret"]
    /\ pc = [t \in Tasks |-> "idle"]
    /\ call = [t \in Tasks |-> NoCall]
    /\ trace = [t \in Tasks |-> <<>>]
    /\ result = [t \in Tasks |-> NoResult]
    /\ tokenRequests = 0
    /\ resourceRequests = 0

\* Mutant: a call reuses the bearer token of the task's previous call when
\* that call obtained one, and sends its resource request at once.
CallReusingToken(t, inv) ==
    /\ pc[t] \in {"idle", "done"}
    /\ tokenRequests < MaxCalls
    /\ call' = [call EXCEPT ![t] = inv]
    /\ result' = [result EXCEPT ![t] = NoResult]
    /\ IF Len(trace[t]) >= 3
       THEN /\ trace' = [trace EXCEPT ![t] =
                 <<Sent(ResourceRequest(client, inv, trace[t][3].request.bearer_auth))>>]
            /\ pc' = [pc EXCEPT ![t] = "request"]
            /\ resourceRequests' = resourceRequests + 1
            /\ UNCHANGED tokenRequests
       ELSE /\ trace' = [trace EXCEPT ![t] = <<Sent(TokenRequest(client))>>]
            /\ pc' = [pc EXCEPT ![t] = "authorize"]
            /\ tokenRequests' = tokenRequests + 1
            /\ UNCHANGED resourceRequests
    /\ UNCHANGED <<client, amountVars, environmentVars>>

\* The caller invokes an endpoint operation; it runs up to the first
\* suspension, the send of the token request in authorize.
Call(t, inv) ==
    /\ pc[t] \in {"idle", "done"}
    /\ tokenRequests < MaxCalls
    /\ call' = [call EXCEPT ![t] = inv]
    /\ trace' = [trace EXCEPT ![t] = <<Sent(TokenRequest(client))>>]
    /\ result' = [result EXCEPT ![t] = NoResult]
    /\ pc' = [pc EXCEPT ![t] = "authorize"]
    /\ tokenRequests' = tokenRequests + 1
    /\ UNCHANGED <<client, resourceRequests, amountVars, environmentVars>>

\* Mutant: when the send of the token request fails, the token request is
\* sent once more.
TokenResponseRetrying(t, outcome) ==
    /\ pc[t] = "authorize"
    /\ LET token == authorize(outcome) IN
       IF outcome.kind = "error" /\ tokenRequests < MaxCalls
       THEN /\ trace' = [trace EXCEPT ![t] =
                           @ \o <<Received(outcome), Sent(TokenRequest(client))>>]
            /\ tokenRequests' = tokenRequests + 1
            /\ UNCHANGED <<pc, result, resourceRequests>>
       ELSE IF token.tag = "Err"
       THEN /\ result' = [result EXCEPT ![t] = token]
            /\ trace' = [trace EXCEPT ![t] = Append(@, Received(outcome))]
            /\ pc' = [pc EXCEPT ![t] = "done"]
            /\ UNCHANGED <<resourceRequests, tokenRequests>>
       ELSE /\ trace' = [trace EXCEPT ![t] =
                           @ \o <<Received(outcome),
                                  Sent(ResourceRequest(client, call[t], token.value))>>]
            /\ pc' = [pc EXCEPT ![t] = "request"]
            /\ resourceRequests' = resourceRequests + 1
            /\ UNCHANGED <<result, tokenRequests>>
    /\ UNCHANGED <<client, call, amountVars, environmentVars>>

\* Mutant: the client keeps the last bearer token; a call whose authorization
\* succeeds sends its resource request with the token another call in
\* progress has already used, when there is one.
TokenResponseSharedToken(t, outcome) ==
    /\ pc[t] = "authorize"
    /\ LET token == authorize(outcome)
           cached == {trace[u][3].request.bearer_auth :
                         u \in {v \in Tasks \ {t} : Len(trace[v]) >= 3}}
       IN
       IF token.tag = "Err"
       THEN /\ result' = [result EXCEPT ![t] = token]
            /\ trace' = [trace EXCEPT ![t] = Append(@, Received(outcome))]
            /\ pc' = [pc EXCEPT ![t] = "done"]
            /\ UNCHANGED resourceRequests
       ELSE /\ trace' = [trace EXCEPT ![t] =
                           @ \o <<Received(outcome),
                                  Sent(ResourceRequest(client, call[t],
                                       IF cached = {} THEN token.value
                                       ELSE CHOOSE b \in cached : TRUE))>>]
            /\ pc' = [pc EXCEPT ![t] = "request"]
            /\ resourceRequests' = resourceRequests + 1
            /\ UNCHANGED result
    /\ UNCHANGED <<client, call, tokenRequests, amountVars, environmentVars>>

\* The token exchange ends: authorize returns, and either its error is
\* returned to the caller or the resource request is sent.
TokenResponse(t, outcome) ==
    /\ pc[t] = "authorize"
    /\ LET token == authorize(outcome) IN
       IF token.tag = "Err"
       THEN /\ result' = [result EXCEPT ![t] = token]
            /\ trace' = [trace EXCEPT ![t] = Append(@, Received(outcome))]
            /\ pc' = [pc EXCEPT ![t] = "done"]
            /\ UNCHANGED resourceRequests
       ELSE /\ trace' = [trace EXCEPT ![t] =
                           @ \o <<Received(outcome),
                                  Sent(ResourceRequest(client, call[t], token.value))>>]
            /\ pc' = [pc EXCEPT ![t] = "request"]
            /\ resourceRequests' = resourceRequests + 1
            /\ UNCHANGED result
    /\ UNCHANGED <<client, call, tokenRequests, amountVars, environmentVars>>

\* Mutant: a resource request answered 429 is sent once more.
ResourceResponseRetrying(t, outcome) ==
    /\ pc[t] = "request"
    /\ IF /\ outcome.kind = "response"
          /\ outcome.status = TOO_MANY_REQUESTS
          /\ Len(trace[t]) < 5
       THEN /\ trace' = [trace EXCEPT ![t] =
                           @ \o <<Received(outcome), trace[t][3]>>]
            /\ resourceRequests' = resourceRequests + 1
            /\ UNCHANGED <<pc, result>>
       ELSE /\ result' = [result EXCEPT ![t] = Complete(call[t].op, outcome)]
            /\ trace' = [trace EXCEPT ![t] = Append(@, Received(outcome))]
            /\ pc' = [pc EXCEPT ![t] = "done"]
            /\ UNCHANGED resourceRequests
    /\ UNCHANGED <<client, call, tokenRequests, amountVars, environmentVars>>

\* The resource exchange ends: the operation classifies the answer and returns.
ResourceResponse(t, outcome) ==
    /\ pc[t] = "request"
    /\ result' = [result EXCEPT ![t] = Complete(call[t].op, outcome)]
    /\ trace' = [trace EXCEPT ![t] = Append(@, Received(outcome))]
    /\ pc' = [pc EXCEPT ![t] = "done"]
    /\ UNCHANGED <<client, call, tokenRequests, resourceRequests, amountVars, environmentVars>>

Next ==
    \/ \E inv \in Invocations : Call(MainTask, inv)
    \/ \E outcome \in TokenOutcomes : TokenResponse(MainTask, outcome)
    \/ \E outcome \in ResourceOutcomes : ResourceResponse(MainTask, outcome)

Spec == Init /\ [][Next]_vars

(***************************************************************************)
(* The remote side answers: a request that has been sent is eventually     *)
(* answered or fails (the http client's send and body read complete).      *)
(***************************************************************************)
Answering ==
    /\ WF_vars(\E outcome \in TokenOutcomes : TokenResponse(MainTask, outcome))
    /\ WF_vars(\E outcome \in ResourceOutcomes : ResourceResponse(MainTask, outcome))

SpecAnswering == Init /\ [][Next]_vars /\ Answering

(***************************************************************************)
(* Two caller tasks sharing the client, their calls interleaved at every   *)
(* suspension point, over a smaller choice of operations and answers.      *)
(***************************************************************************)
ConcurrentInvocations ==
    {[op |-> "create_payment", request |-> CardPaymentRequest],
     [op |-> "get_payment_details", payment_id |-> "pay_1"],
     [op |-> "capture_payment", payment_id |-> "pay_2", body |-> CapturePaymentBody]}

ConcurrentTokenOutcomes ==
    {[kind |-> "error", cause |-> "timeout"]}
    \cup Responses({200}, {TokenJsonA, TokenJsonB})
    \cup Responses({401}, {EmptyBody})

ConcurrentResourceOutcomes ==
    {[kind |-> "error", cause |-> "connect"]}
    \cup Responses({201}, {ProcessedJson})
    \cup Responses({200}, {ActionJson, DetailsJson})
    \cup Responses({401, 422}, {ErrorJson, EmptyBody})

NextConcurrent ==
    \E t \in Tasks :
        \/ \E inv \in ConcurrentInvocations : Call(t, inv)
        \/ \E outcome \in ConcurrentTokenOutcomes : TokenResponse(t, outcome)
        \/ \E outcome \in ConcurrentResourceOutcomes : ResourceResponse(t, outcome)

SpecConcurrent == Init /\ [][NextConcurrent]_vars

(***************************************************************************)
(* A caller converting amounts.  It either builds an Amount from a decimal *)
(* value (Amount::from) or receives one from a response body (Amount is    *)
(* serde(transparent) over u64), and may then read its decimal value       *)
(* (Amount::into).                                                         *)
(*   currency  the Currency passed to from and into                        *)
(*   decimal   the BigDecimal passed to from                               *)
(*   amount    the Amount held, or the panic that ended the caller         *)
(*   decoded   the BigDecimal returned by into                             *)
(***************************************************************************)
IntVals == {-1, 0, 1, 5, 100, 1000, 1999, 2000, U64_MAX, U64_MAX + 1}
Scales == 0 .. 3
Decimals == {BigDecimal(i, s) : i \in IntVals, s \in Scales}
StoredValues == {0, 1, 5, 100, 1999, 2000, U64_MAX}

InitAmount ==
    /\ ClientIdle
    /\ EnvironmentIdle
    /\ currency \in Currencies
    /\ decimal \in Decimals \cup {NoDecimal}
    /\ amount = NoAmount
    /\ decoded = NoDecimal

\* Amount::from(currency, decimal)
AmountFrom ==
    /\ decimal # NoDecimal
    /\ amount = NoAmount
    /\ amount' = Amount_from(currency, decimal)
    /\ UNCHANGED <<currency, decimal, decoded, clientVars, environmentVars>>

\* An Amount read from a JSON number.
AmountDeserialize(n) ==
    /\ decimal = NoDecimal
    /\ amount = NoAmount
    /\ amount' = Amount(n)
    /\ UNCHANGED <<currency, decimal, decoded, clientVars, environmentVars>>

\* amount.into(currency)
AmountInto ==
    /\ amount.tag = "Amount"
    /\ decoded = NoDecimal
    /\ decoded' = Amount_into(amount.value, currency)
    /\ UNCHANGED <<currency, decimal, amount, clientVars, environmentVars>>

NextAmount ==
    \/ AmountFrom
    \/ \E n \in StoredValues : AmountDeserialize(n)
    \/ AmountInto

SpecAmount == InitAmount /\ [][NextAmount]_vars

(***************************************************************************)
(* A caller parsing an environment name through one of the three entry     *)
(* points.                                                                 *)
(*   input   the string given                                              *)
(*   parsed  the entry point used and what it returned                     *)
(***************************************************************************)
\* Every letter-casing of word.
Casings(word) ==
    {[i \in DOMAIN word |->
         IF upper[i] THEN to_ascii_uppercase_char(word[i]) ELSE word[i]] :
       upper \in [DOMAIN word -> BOOLEAN]}

Words ==
    UNION {Casings(w) : w \in {Str_prod, Str_production, Str_dev, Str_development,
                                Str_sandbox, Str_staging}}
    \cup {<<>>, <<"p", "r", "o", " ", "d">>, <<"p", "r", "o", "d", "1">>,
          <<"l", "i", "v", "e">>}

Paddings == {<<>>, <<" ">>, <<"\t", "\n">>}

Inputs == {lead \o w \o trail : lead \in Paddings, w \in Words, trail \in Paddings}

Parsed(api, r) == [api |-> api, result |-> r]

InitEnvironment ==
    /\ ClientIdle
    /\ AmountIdle
    /\ input \in Inputs
    /\ parsed = NotParsed

\* input.parse::<Environment>() / Environment::from_str(input)
FromStr ==
    /\ parsed = NotParsed
    /\ parsed' = Parsed("FromStr", Environment_from_str(input))
    /\ UNCHANGED <<input, clientVars, amountVars>>

\* Environment::try_from(input) for a String
TryFromString ==
    /\ parsed = NotParsed
    /\ parsed' = Parsed("TryFrom<String>", try_from_String(input))
    /\ UNCHANGED <<input, clientVars, amountVars>>

\* Environment::try_from(input) for a &str
TryFromStr ==
    /\ parsed = NotParsed
    /\ parsed' = Parsed("TryFrom<&str>", try_from_str(input))
    /\ UNCHANGED <<input, clientVars, amountVars>>

NextEnvironment == FromStr \/ TryFromString \/ TryFromStr

SpecEnvironment == InitEnvironment /\ [][NextEnvironment]_vars

(***************************************************************************)
(* Observations of a call: the requests it sent and the answers it got.    *)
(***************************************************************************)
SendsTo(tr, endpoint) ==
    {i \in DOMAIN tr : tr[i].ev = "send" /\ tr[i].request.endpoint = endpoint}

\* The request sent at position i has been answered.
Answered(tr, i) == i + 1 \in DOMAIN tr /\ tr[i + 1].ev = "recv"

AnswersFrom(tr, endpoint) ==
    {tr[i + 1].outcome : i \in {j \in SendsTo(tr, endpoint) : Answered(tr, j)}}

TokenAnswers(t) == AnswersFrom(trace[t], "token")
ResourceAnswers(t) == AnswersFrom(trace[t], "resource")

\* C1: whenever the token endpoint answered a call's authorization request
\* with a status other than 200, the call has returned Unauthorized and has
\* sent no request to the resource endpoint, whatever the operation.
C1_TokenRefusalIsUnauthorized ==
    \A t \in Tasks : \A a \in TokenAnswers(t) :
        (a.kind = "response" /\ a.status # 200) =>
            /\ pc[t] = "done"
            /\ result[t] = Err(Unauthorized)
            /\ SendsTo(trace[t], "resource") = {}

C1_Witness ==
    \E t \in Tasks :
        /\ call[t].op = "void_payment"
        /\ \E a \in TokenAnswers(t) :
              a.kind = "response" /\ a.status = 201 /\ a.body = TokenJsonA
        /\ result[t] = Err(Unauthorized)

\* C2: no bearer token is cached or reused.  Every call starts with its own
\* token request, every resource request of a call comes after that token
\* request, and the resource endpoint never sees more requests than the
\* token endpoint has seen.
C2_EveryCallAuthorizes ==
    /\ resourceRequests <= tokenRequests
    /\ \A t \in Tasks :
          /\ trace[t] # <<>> => trace[t][1] = Sent(TokenRequest(client))
          /\ \A i \in SendsTo(trace[t], "resource") :
                \E j \in SendsTo(trace[t], "token") : j < i

C2_Witness ==
    /\ tokenRequests = 3
    /\ resourceRequests = 3
    /\ \E t \in Tasks : pc[t] = "request"

\* C3: a call's resource request comes directly after the answer to its own
\* token request, that answer has status 200, and the request's bearer token
\* is the access_token field of that answer's body.
C3_BearerIsOwnToken ==
    \A t \in Tasks : \A i \in SendsTo(trace[t], "resource") :
        /\ i >= 3
        /\ trace[t][i - 2].ev = "send"
        /\ trace[t][i - 2].request.endpoint = "token"
        /\ trace[t][i - 1].ev = "recv"
        /\ LET a == trace[t][i - 1].outcome IN
              /\ a.kind = "response"
              /\ a.status = 200
              /\ a.readable
              /\ from_str(a.body).kind = "object"
              /\ "access_token" \in DOMAIN from_str(a.body).fields
              /\ trace[t][i].request.bearer_auth = from_str(a.body).fields.access_token

C3_Witness ==
    \E t \in Tasks :
        /\ pc[t] = "request"
        /\ TokenAnswers(t) =
              {[kind |-> "response", status |-> 200, body |-> TokenJsonB,
                readable |-> TRUE]}
        /\ \E i \in SendsTo(trace[t], "resource") :
              trace[t][i].request.bearer_auth = "tok_B"

\* The response type of each operation that goes through send_get_request
\* or send_post_request.
ResponseTypeOf(op) ==
    CASE op = "get_payment_details" -> "GetPaymentDetailsResponse"
      [] op = "get_payment_actions" -> "GetPaymentActionsResponse"
      [] op = "capture_payment" -> "CapturePaymentResponse"
      [] op = "refund_payment" -> "RefundPaymentResponse"
      [] op = "void_payment" -> "VoidPaymentResponse"

\* The body of answer a is a JSON object with the three fields of ApiError.
StructuredError(a) ==
    /\ a.readable
    /\ from_str(a.body).kind = "object"
    /\ {"request_id", "error_type", "error_codes"} \subseteq DOMAIN from_str(a.body).fields

\* C4: create_payment answered 201 with a body that reads as PaymentProcessed
\* returns Ok(Processed(body)); answered 202 with a body that reads as
\* PendingPayment it returns Ok(Pending(body)).
C4_CreatedProcessedAcceptedPending ==
    \A t \in Tasks : call[t].op = "create_payment" =>
        \A a \in ResourceAnswers(t) : (a.kind = "response" /\ a.readable) =>
            /\ (a.status = 201 /\ PaymentProcessed(from_str(a.body)).ok) =>
                  /\ result[t].tag = "Ok"
                  /\ result[t].value.variant = "Processed"
                  /\ result[t].value.body.id = from_str(a.body).fields.id
                  /\ result[t].value.body.approved = from_str(a.body).fields.approved
            /\ (a.status = 202 /\ PendingPayment(from_str(a.body)).ok) =>
                  /\ result[t].tag = "Ok"
                  /\ result[t].value.variant = "Pending"
                  /\ result[t].value.body.id = from_str(a.body).fields.id
                  /\ result[t].value.body.status = from_str(a.body).fields.status

C4_Witness ==
    \E t \in Tasks :
        /\ call[t].op = "create_payment"
        /\ \E a \in ResourceAnswers(t) :
              a.kind = "response" /\ a.status = 202 /\ a.body = ProcessedJson
        /\ result[t].tag = "Ok"
        /\ result[t].value.variant = "Pending"

\* C5: create_payment answered 401 returns Unauthorized and answered 429
\* returns TooManyRequests, whatever the body is and even when the body
\* cannot be read; the error carries nothing of the response.
C5_UnauthorizedAndRateLimited ==
    \A t \in Tasks : call[t].op = "create_payment" =>
        \A a \in ResourceAnswers(t) : a.kind = "response" =>
            /\ a.status = 401 => result[t] = Err(Unauthorized)
            /\ a.status = 429 => result[t] = Err(TooManyRequests)

C5_Witness ==
    \E t \in Tasks :
        /\ call[t].op = "create_payment"
        /\ \E a \in ResourceAnswers(t) :
              a.kind = "response" /\ a.status = 429 /\ ~a.readable
        /\ result[t] = Err(TooManyRequests)

\* C6: create_payment answered 422 with a structured error body returns
\* InvalidData whose request_id, error_type and error_codes are the body's.
C6_InvalidDataCarriesBody ==
    \A t \in Tasks : call[t].op = "create_payment" =>
        \A a \in ResourceAnswers(t) :
            (a.kind = "response" /\ a.status = 422 /\ StructuredError(a)) =>
                /\ result[t].tag = "Err"
                /\ result[t].error.variant = "InvalidData"
                /\ result[t].error.api.request_id = from_str(a.body).fields.request_id
                /\ result[t].error.api.error_type = from_str(a.body).fields.error_type
                /\ result[t].error.api.error_codes = from_str(a.body).fields.error_codes

C6_Witness ==
    \E t \in Tasks :
        /\ call[t].op = "create_payment"
        /\ \E a \in ResourceAnswers(t) :
              a.kind = "response" /\ a.status = 422 /\ a.body = ErrorJson
        /\ result[t].tag = "Err"
        /\ result[t].error.variant = "InvalidData"
        /\ result[t].error.api.error_codes = <<"card_expired", "amount_invalid">>

\* C7: create_payment answered with a status that is neither 2xx nor 401, 422
\* or 429, and a body that was received, returns Unknown carrying that status
\* and the body text as received.
C7_UnmappedStatusIsUnknown ==
    \A t \in Tasks : call[t].op = "create_payment" =>
        \A a \in ResourceAnswers(t) :
            (/\ a.kind = "response"
             /\ a.readable
             /\ ~(a.status >= 200 /\ a.status < 300)
             /\ a.status \notin {401, 422, 429}) =>
                result[t] = Err(Unknown(a.status, a.body))

C7_Witness ==
    \E t \in Tasks :
        /\ call[t].op = "create_payment"
        /\ \E a \in ResourceAnswers(t) :
              a.kind = "response" /\ a.status = 418 /\ a.body = TeapotText
        /\ result[t] = Err(Unknown(418, TeapotText))

\* C8: get_payment_details, get_payment_actions, capture_payment,
\* refund_payment and void_payment classify the resource status as
\* create_payment does: 401 is Unauthorized, 422 with a structured body is
\* InvalidData carrying it, 429 is TooManyRequests, and any other non-2xx
\* status with a received body is Unknown carrying the status and the body.
C8_SharedClassification ==
    \A t \in Tasks : call[t].op \in GetOps \cup PostOps =>
        \A a \in ResourceAnswers(t) : (a.kind = "response" /\ a.readable) =>
            /\ a.status = 401 => result[t] = Err(Unauthorized)
            /\ (a.status = 422 /\ StructuredError(a)) =>
                  /\ result[t].tag = "Err"
                  /\ result[t].error.variant = "InvalidData"
                  /\ result[t].error.api.request_id = from_str(a.body).fields.request_id
                  /\ result[t].error.api.error_type = from_str(a.body).fields.error_type
                  /\ result[t].error.api.error_codes = from_str(a.body).fields.error_codes
            /\ a.status = 429 => result[t] = Err(TooManyRequests)
            /\ (~(a.status >= 200 /\ a.status < 300) /\ a.status \notin {401, 422, 429}) =>
                  result[t] = Err(Unknown(a.status, a.body))

\* C9: get_payment_details, get_payment_actions, capture_payment,
\* refund_payment and void_payment, answered with any 2xx status and a body
\* that reads as the operation's response type, return Ok carrying the
\* decoded body.
C9_SuccessReturnsDecodedBody ==
    \A t \in Tasks : call[t].op \in GetOps \cup PostOps =>
        \A a \in ResourceAnswers(t) :
            (/\ a.kind = "response"
             /\ a.readable
             /\ a.status >= 200 /\ a.status < 300
             /\ Deserialize(ResponseTypeOf(call[t].op), from_str(a.body)).ok) =>
                result[t] =
                    Ok(Deserialize(ResponseTypeOf(call[t].op), from_str(a.body)).value)

C9_Witness ==
    \E t \in Tasks :
        /\ call[t].op = "capture_payment"
        /\ \E a \in ResourceAnswers(t) :
              a.kind = "response" /\ a.status = 202 /\ a.body = ActionJson
        /\ result[t].tag = "Ok"
        /\ result[t].value.action_id = "act_2"
        /\ result[t].value.reference = "ORD-1"

\* C10: when the send of the token request or of the resource request fails
\* (connection error, timeout), the call returns Transport carrying that
\* cause, whatever the operation.
C10_SendFailureIsTransport ==
    \A t \in Tasks : \A a \in TokenAnswers(t) \cup ResourceAnswers(t) :
        a.kind = "error" =>
            /\ pc[t] = "done"
            /\ result[t] = Err(Transport(a.cause))

C10_Witness ==
    \E t \in Tasks :
        /\ call[t].op = "get_payment_details"
        /\ [kind |-> "error", cause |-> "timeout"] \in ResourceAnswers(t)
        /\ result[t] = Err(Transport("timeout"))

\* The body of token answer a is a JSON object with an access_token field.
CarriesToken(a) ==
    /\ a.readable
    /\ from_str(a.body).kind = "object"
    /\ "access_token" \in DOMAIN from_str(a.body).fields

\* C11: nothing is retried.  A call sends at most one token request and at
\* most one resource request; once the token exchange has failed (send
\* failure, status other than 200, body unreadable or without access_token)
\* or the resource exchange has ended, the call has returned and has sent
\* nothing after that answer; and a call that returned an error sent nothing
\* after the answer that caused it.
C11_NothingIsRetried ==
    \A t \in Tasks :
        /\ Cardinality(SendsTo(trace[t], "token")) <= 1
        /\ Cardinality(SendsTo(trace[t], "resource")) <= 1
        /\ \A i \in SendsTo(trace[t], "token") : Answered(trace[t], i) =>
              LET a == trace[t][i + 1].outcome IN
              (a.kind = "error" \/ a.status # 200 \/ ~CarriesToken(a)) =>
                  /\ Len(trace[t]) = i + 1
                  /\ pc[t] = "done"
                  /\ result[t].tag = "Err"
        /\ \A i \in SendsTo(trace[t], "resource") : Answered(trace[t], i) =>
              /\ Len(trace[t]) = i + 1
              /\ pc[t] = "done"
        /\ result[t].tag = "Err" =>
              /\ pc[t] = "done"
              /\ trace[t][Len(trace[t])].ev = "recv"

C11_Witness ==
    \E t \in Tasks :
        /\ call[t].op = "refund_payment"
        /\ Len(trace[t]) = 4
        /\ trace[t][4].ev = "recv"
        /\ trace[t][4].outcome.kind = "response"
        /\ trace[t][4].outcome.status = 500
        /\ result[t].tag = "Err"
        /\ pc[t] = "done"

\* C12: authorize returns Ok(access_token) exactly when the token endpoint
\* answers 200 with a JSON body that has an access_token field: the call goes
\* on to its resource request, with that field's value as the bearer token,
\* in that case and in no other; for every other status, other 2xx statuses
\* included, the call returns Unauthorized, which carries neither the status
\* nor the body.
C12_AuthorizeOkExactlyOn200WithToken ==
    \A t \in Tasks : \A a \in TokenAnswers(t) :
        LET granted == a.kind = "response" /\ a.status = 200 /\ CarriesToken(a)
            sent == SendsTo(trace[t], "resource")
        IN /\ granted <=> sent # {}
           /\ granted =>
                 \A i \in sent :
                     trace[t][i].request.bearer_auth = from_str(a.body).fields.access_token
           /\ (a.kind = "response" /\ a.status # 200) =>
                 result[t] = [tag |-> "Err", error |-> [variant |-> "Unauthorized"]]

C12_Witness ==
    \E t \in Tasks :
        /\ call[t].op = "create_payment"
        /\ \E a \in TokenAnswers(t) :
              a.kind = "response" /\ a.status = 204 /\ a.body = TokenJsonB
        /\ result[t] = Err(Unauthorized)
        /\ SendsTo(trace[t], "resource") = {}

(***************************************************************************)
(* Observations of a conversion.                                           *)
(***************************************************************************)
\* The number of decimals of a currency's minor unit.
MinorUnitExponent(cur) ==
    CASE cur \in {"BIF", "CLF", "DJF", "GNF", "ISK", "JPY", "KMF", "KRW", "PYG",
                  "RWF", "UGX", "VND", "VUV", "XAF", "XOF", "XPF"} -> 0
      [] cur \in {"BHD", "IQD", "JOD", "KWD", "LYD", "OMR", "TND"} -> 3
      [] OTHER -> 2

\* Amount::from has been applied to decimal.
Encoded == decimal # NoDecimal /\ amount # NoAmount

\* decimal * 10^exponent of the currency is an integer.
Integral ==
    (decimal.int_val * Pow10(MinorUnitExponent(currency))) % Pow10(decimal.scale) = 0

\* decimal * 10^exponent of the currency is negative or beyond the u64 range.
OutOfRange ==
    \/ decimal.int_val < 0
    \/ decimal.int_val * Pow10(MinorUnitExponent(currency))
          >= (U64_MAX + 1) * Pow10(decimal.scale)

\* C13: round trip.  For a non-negative decimal value whose scale is the
\* currency's exponent (more generally: whose product with 10^exponent is an
\* integer) and whose scaled value fits the u64, Amount::from returns an
\* Amount, and Amount::into of that Amount is the value.
C13_RoundTrip ==
    (Encoded /\ ~OutOfRange /\ Integral) =>
        /\ amount.tag = "Amount"
        /\ decoded # NoDecimal =>
              decoded.int_val * Pow10(decimal.scale)
                  = decimal.int_val * Pow10(decoded.scale)

C13_Witness ==
    /\ currency = "KWD"
    /\ decimal = BigDecimal(1999, 3)
    /\ amount = Amount(1999)
    /\ decoded # NoDecimal
    /\ decoded.int_val = 1999 /\ decoded.scale = 3

\* C14: for a non-negative value that scales to an integer in the u64 range,
\* Amount::from stores the face value for the zero-decimal currencies, the
\* face value x 1000 for the three-decimal ones and the face value x 100 for
\* every other currency; from(JPY, 100) = 100, from(KWD, 1.000) = 1000,
\* from(USD, 1.00) = 100, from(USD, 20.00) = 2000.
C14_FromScalesByExponentClass ==
    Encoded =>
        /\ (~OutOfRange /\ Integral) =>
              /\ amount.tag = "Amount"
              /\ amount.value * Pow10(decimal.scale)
                    = decimal.int_val * Pow10(MinorUnitExponent(currency))
        /\ (currency = "JPY" /\ decimal = BigDecimal(100, 0)) => amount = Amount(100)
        /\ (currency = "KWD" /\ decimal = BigDecimal(1000, 3)) => amount = Amount(1000)
        /\ (currency = "USD" /\ decimal = BigDecimal(100, 2)) => amount = Amount(100)
        /\ (currency = "USD" /\ decimal = BigDecimal(2000, 2)) => amount = Amount(2000)

C14_Witness ==
    /\ currency = "BHD"
    /\ decimal = BigDecimal(5, 1)
    /\ amount = Amount(500)

\* C15: when the scaled product is negative or beyond the u64 range,
\* Amount::from returns a conversion error of kind Overflow: neither an
\* Amount nor a panic.
C15_OutOfRangeIsOverflowError ==
    (Encoded /\ OutOfRange) =>
        /\ amount.tag = "Err"
        /\ amount.error = "Overflow"

\* C16: when the value times 10^exponent is not an integer (and is in the
\* u64 range), Amount::from returns a conversion error of kind Precision: it
\* does not drop the fractional remainder.
C16_ImpreciseIsPrecisionError ==
    (Encoded /\ ~OutOfRange /\ ~Integral) =>
        /\ amount.tag = "Err"
        /\ amount.error = "Precision"

\* C17: Amount::into never fails and is exact: for every stored integer n,
\* 0 and the largest u64 included, and every currency, it returns a decimal
\* equal to n / 10^e, e being 0, 3 or 2 by the currency's class.
C17_IntoIsExact ==
    amount.tag = "Amount" =>
        /\ decoded = NoDecimal => ENABLED AmountInto
        /\ decoded # NoDecimal =>
              /\ decoded.scale \in 0 .. 3
              /\ decoded.int_val * Pow10(MinorUnitExponent(currency))
                    = amount.value * Pow10(decoded.scale)

C17_Witness ==
    /\ currency = "TND"
    /\ decimal = NoDecimal
    /\ amount = Amount(U64_MAX)
    /\ decoded # NoDecimal
    /\ decoded.int_val = U64_MAX /\ decoded.scale = 3

(***************************************************************************)
(* Observations of a parse.                                                *)
(***************************************************************************)
ProductionNames == {Str_prod, Str_production}
SandboxNames == {Str_dev, Str_development, Str_sandbox}

\* s is a letter-casing of one of the names.
IsCasingOf(names, s) ==
    \E w \in names :
        /\ Len(s) = Len(w)
        /\ \A k \in DOMAIN w : s[k] \in {w[k], to_ascii_uppercase_char(w[k])}

\* s is a letter-casing of one of the names between leading and trailing
\* whitespace.
IsPaddedCasingOf(names, s) ==
    \E i, j \in 0 .. Len(s) :
        /\ i <= j
        /\ \A k \in 1 .. i : s[k] \in Whitespace
        /\ \A k \in j + 1 .. Len(s) : s[k] \in Whitespace
        /\ IsCasingOf(names, SubSeq(s, i + 1, j))

\* C18 as stated: through each of the three entry points, every letter-casing
\* of "prod" or "production" parses to Production, every letter-casing of
\* "dev", "development" or "sandbox" parses to Sandbox, and every other
\* string is a parse failure.
C18_ClosedAliasSet ==
    parsed # NotParsed =>
        /\ IsCasingOf(ProductionNames, input) =>
              parsed.result = [tag |-> "Ok", value |-> "Production"]
        /\ IsCasingOf(SandboxNames, input) =>
              parsed.result = [tag |-> "Ok", value |-> "Sandbox"]
        /\ ~IsCasingOf(ProductionNames \cup SandboxNames, input) =>
              parsed.result.tag = "Err"

\* C18 amended: the names are also accepted between leading and trailing
\* whitespace.  Through each of the three entry points, a letter-casing of
\* "prod" or "production", with or without whitespace around it, parses to
\* Production; a letter-casing of "dev", "development" or "sandbox", with or
\* without whitespace around it, parses to Sandbox; every other string is a
\* parse failure.
C18_AliasSetUpToWhitespace ==
    parsed # NotParsed =>
        /\ IsPaddedCasingOf(ProductionNames, input) =>
              parsed.result = [tag |-> "Ok", value |-> "Production"]
        /\ IsPaddedCasingOf(SandboxNames, input) =>
              parsed.result = [tag |-> "Ok", value |-> "Sandbox"]
        /\ ~IsPaddedCasingOf(ProductionNames \cup SandboxNames, input) =>
              parsed.result.tag = "Err"

C18_Witness ==
    /\ input = <<" ", "D", "e", "V", "\t", "\n">>
    /\ parsed.api = "TryFrom<&str>"
    /\ parsed.result = Ok("Sandbox")

\* C19: a failed parse returns a ParseEnvironmentError that carries the input
\* string itself, letter case and surrounding whitespace included.
C19_ErrorCarriesOriginalInput ==
    (parsed # NotParsed /\ parsed.result.tag = "Err") =>
        parsed.result.error.string = input

(***************************************************************************)
(* Where requests go.                                                      *)
(***************************************************************************)
\* C20: the token request is a POST to {access_url}/connect/token and every
\* resource request goes to the api url of the client's own environment, with
\* the verb and path of the operation and the caller's payment id; a GET has
\* no body and a POST has the serialized body of the call.
C20_RequestsAddressedByEnvironmentAndOperation ==
    LET api == IF client.environment = "Sandbox"
               THEN "https://api.sandbox.checkout.com"
               ELSE "https://api.checkout.com"
        access == IF client.environment = "Sandbox"
                  THEN "https://access.sandbox.checkout.com"
                  ELSE "https://access.checkout.com"
    IN \A t \in Tasks :
        /\ \A i \in SendsTo(trace[t], "token") :
              /\ trace[t][i].request.method = "POST"
              /\ trace[t][i].request.url = access \o "/connect/token"
        /\ \A i \in SendsTo(trace[t], "resource") :
              LET r == trace[t][i].request
                  c == call[t]
              IN CASE c.op = "create_payment" ->
                        /\ r.method = "POST"
                        /\ r.url = api \o "/payments"
                        /\ r.json = to_string(c.request)
                   [] c.op = "get_payment_details" ->
                        /\ r.method = "GET"
                        /\ r.url = api \o "/payments/" \o c.payment_id
                        /\ r.json = NoBody
                   [] c.op = "get_payment_actions" ->
                        /\ r.method = "GET"
                        /\ r.url = api \o "/payments/" \o c.payment_id \o "/actions"
                        /\ r.json = NoBody
                   [] c.op = "capture_payment" ->
                        /\ r.method = "POST"
                        /\ r.url = api \o "/payments/" \o c.payment_id \o "/captures"
                        /\ r.json = to_string(c.body)
                   [] c.op = "refund_payment" ->
                        /\ r.method = "POST"
                        /\ r.url = api \o "/payments/" \o c.payment_id \o "/refunds"
                        /\ r.json = to_string(c.body)
                   [] c.op = "void_payment" ->
                        /\ r.method = "POST"
                        /\ r.url = api \o "/payments/" \o c.payment_id \o "/voids"
                        /\ r.json = to_string(c.body)

C20_Witness ==
    /\ client.environment = "Sandbox"
    /\ \E t \in Tasks :
          /\ call[t].op = "refund_payment"
          /\ \E i \in SendsTo(trace[t], "resource") :
                /\ trace[t][i].request.method = "POST"
                /\ trace[t][i].request.url =
                      "https://api.sandbox.checkout.com/payments/pay_2/refunds"
                /\ trace[t][i].request.json =
                      "{\"amount\":500,\"reference\":\"ORD-1\",\"metadata\":null}"

(***************************************************************************)
(* What a call returns.                                                    *)
(***************************************************************************)
ErrorVariants ==
    {"Api", "Unauthorized", "InvalidData", "TooManyRequests", "Unknown", "Transport"}

\* r is a value of Result<_, Error>.
TypedResult(r) ==
    \/ r.tag = "Ok"
    \/ r.tag = "Err" /\ r.error.variant \in ErrorVariants

\* C21: no answer of the remote side aborts a call.  A call that has ended
\* holds an Ok or an Err of one of the Error variants, and a call waiting
\* for an answer takes every answer (any status, any body, an unreadable
\* body, a failed send) to an Ok or an Err.
C21_EveryOutcomeIsTyped ==
    \A t \in Tasks :
        /\ pc[t] = "done" => TypedResult(result[t])
        /\ pc[t] = "authorize" =>
              \A outcome \in TokenOutcomes : TypedResult(authorize(outcome))
        /\ pc[t] = "request" =>
              \A outcome \in ResourceOutcomes :
                  TypedResult(Complete(call[t].op, outcome))

C21_Witness ==
    \E t \in Tasks :
        /\ call[t].op = "create_payment"
        /\ pc[t] = "done"
        /\ \E a \in ResourceAnswers(t) :
              a.kind = "response" /\ a.status = 201 /\ a.body = TeapotText
        /\ result[t] = Err(Transport("decode"))

(***************************************************************************)
(* Calls in progress at the same time.                                     *)
(***************************************************************************)
\* The answers a call has received, in order.
OwnAnswers(t) ==
    [i \in {j \in DOMAIN trace[t] : trace[t][j].ev = "recv"} |-> trace[t][i].outcome]

\* C22: calls running at the same time on one client are independent.  In
\* every interleaving, the result of a call that has ended is what its
\* operation makes of the answers to its own requests (two calls of the same
\* operation with the same answers have the same result), the resource
\* request of a call carries the access_token of the answer to its own token
\* request, every token request carries the client's credentials, and no
\* step changes the client.
C22_ConcurrentCallsAreIndependent ==
    /\ [](\A t \in Tasks :
            /\ pc[t] = "done" =>
                  /\ result[t] =
                        IF authorize(trace[t][2].outcome).tag = "Err"
                        THEN authorize(trace[t][2].outcome)
                        ELSE Complete(call[t].op, trace[t][4].outcome)
                  /\ \A u \in Tasks :
                        (/\ pc[u] = "done"
                         /\ call[u].op = call[t].op
                         /\ OwnAnswers(u) = OwnAnswers(t)) => result[u] = result[t]
            /\ \A i \in SendsTo(trace[t], "resource") :
                  /\ trace[t][i - 1].ev = "recv"
                  /\ trace[t][i].request.bearer_auth =
                        from_str(trace[t][i - 1].outcome.body).fields.access_token
            /\ \A i \in SendsTo(trace[t], "token") :
                  trace[t][i].request.basic_auth = <<client.username, client.password>>)
    /\ [][client' = client]_vars

C22_Witness ==
    /\ pc["t1"] = "request"
    /\ pc["t2"] = "request"
    /\ trace["t1"][3].request.bearer_auth = "tok_A"
    /\ trace["t2"][3].request.bearer_auth = "tok_B"
    /\ tokenRequests = 3

\* C23: create_payment with a card source, answered 201 with a body that
\* reads as PaymentProcessed with a card source, returns Processed whose
\* approved, status and source expiry_month, expiry_year and last4 are the
\* body's; approved:true and status:"Authorized" come back as true and
\* Authorized.
C23_ProcessedReproducesBody ==
    \A t \in Tasks :
        (call[t].op = "create_payment" /\ call[t].request.source.type = "card") =>
            \A a \in ResourceAnswers(t) :
                (/\ a.kind = "response" /\ a.readable /\ a.status = 201
                 /\ from_str(a.body).kind = "object"
                 /\ {"id", "action_id", "amount", "currency", "approved", "status",
                     "response_code", "processed_on", "source"}
                       \subseteq DOMAIN from_str(a.body).fields
                 /\ from_str(a.body).fields.source.type = "card") =>
                    LET sent == from_str(a.body).fields
                        body == result[t].value.body
                    IN /\ result[t].tag = "Ok"
                       /\ result[t].value.variant = "Processed"
                       /\ body.approved = sent.approved
                       /\ body.status = sent.status
                       /\ body.source # None
                       /\ body.source.expiry_month = sent.source.expiry_month
                       /\ body.source.expiry_year = sent.source.expiry_year
                       /\ body.source.last4 = sent.source.last4
                       /\ (sent.approved = TRUE /\ sent.status = "Authorized") =>
                             (body.approved = TRUE /\ body.status = "Authorized")

C23_Witness ==
    \E t \in Tasks :
        /\ call[t].op = "create_payment"
        /\ \E a \in ResourceAnswers(t) :
              a.kind = "response" /\ a.status = 201 /\ a.body = ProcessedJson
        /\ result[t].tag = "Ok"
        /\ result[t].value.body.approved = TRUE
        /\ result[t].value.body.status = "Authorized"
        /\ result[t].value.body.source.expiry_month = 6
        /\ result[t].value.body.source.expiry_year = 2025
        /\ result[t].value.body.source.last4 = "4242"

\* The type a 2xx answer to the call of task t is decoded as.
ExpectedType(t, status) ==
    IF call[t].op = "create_payment"
    THEN IF status = 201 THEN "PaymentProcessed" ELSE "PendingPayment"
    ELSE ResponseTypeOf(call[t].op)

\* C24: a 2xx answer whose body does not read as the expected response type
\* gives a deserialization error of a kind of its own: the error returned is
\* neither InvalidData nor the Transport kind of a connection failure or a
\* timeout.
C24_DecodeFailureHasItsOwnKind ==
    \A t \in Tasks : \A a \in ResourceAnswers(t) :
        (/\ a.kind = "response" /\ a.readable
         /\ a.status >= 200 /\ a.status < 300
         /\ call[t].op = "create_payment" => a.status \in {201, 202}
         /\ ~Deserialize(ExpectedType(t, a.status), from_str(a.body)).ok) =>
            /\ result[t].tag = "Err"
            /\ result[t].error.variant \notin {"InvalidData", "Transport"}

\* C25: an Unknown error never carries a 2xx status; create_payment answered
\* 200 or 204 does not return Unknown.
C25_UnknownIsNeverSuccessStatus ==
    \A t \in Tasks :
        (result[t].tag = "Err" /\ result[t].error.variant = "Unknown") =>
            ~(result[t].error.status >= 200 /\ result[t].error.status < 300)

(***************************************************************************)
(* Where the credentials go.                                               *)
(***************************************************************************)
Secrets == {client.username, client.password}

\* The strings an error value carries.
ErrorStrings(e) ==
    CASE e.variant \in {"Api", "InvalidData"} ->
           {e.api.request_id, e.api.error_type}
           \cup {e.api.error_codes[i] : i \in DOMAIN e.api.error_codes}
      [] e.variant = "Unknown" -> {e.body}
      [] e.variant = "Transport" -> {e.cause}
      [] OTHER -> {}

\* C26: the username and the password go out as the Basic credentials of the
\* token request to {access_url}/connect/token and nowhere else: no request
\* to the resource endpoint has Basic credentials or holds either of them in
\* its url, bearer token or body, and no error returned holds either.
C26_CredentialsOnlyOnTokenRequest ==
    \A t \in Tasks :
        /\ \A i \in SendsTo(trace[t], "token") :
              LET r == trace[t][i].request IN
              /\ r.basic_auth = <<client.username, client.password>>
              /\ r.url = access_url(client.environment) \o "/connect/token"
              /\ {r.url, r.form.grant_type, r.form.scope} \cap Secrets = {}
        /\ \A i \in SendsTo(trace[t], "resource") :
              LET r == trace[t][i].request IN
              /\ DOMAIN r = {"endpoint", "method", "url", "bearer_auth", "json"}
              /\ r.url \notin Secrets
              /\ r.bearer_auth \notin Secrets
              /\ r.method = "POST" => r.json \notin Secrets
        /\ result[t].tag = "Err" => ErrorStrings(result[t].error) \cap Secrets = {}

C26_Witness ==
    \E t \in Tasks :
        /\ call[t].op = "get_payment_actions"
        /\ trace[t][1].request.basic_auth = <<"ck_user", "ck_secret">>
        /\ \E i \in SendsTo(trace[t], "resource") :
              trace[t][i].request.bearer_auth = "tok_A"
        /\ result[t].tag = "Err"
        /\ result[t].error.variant = "Api"

(***************************************************************************)
(* How a call ends.                                                        *)
(***************************************************************************)
Received_(tr) == {i \in DOMAIN tr : tr[i].ev = "recv"}

\* C27: a call makes at most two exchanges, the token exchange and then the
\* resource exchange, and returns one result when the last of them ends;
\* when every request sent is eventually answered or fails, every call
\* eventually returns.
C27_CallsCompleteInTwoExchanges ==
    /\ [](\A t \in Tasks :
            /\ Cardinality(Received_(trace[t])) <= 2
            /\ Len(trace[t]) <= 4
            /\ \A i \in SendsTo(trace[t], "resource") :
                  \E j \in SendsTo(trace[t], "token") : j < i
            /\ pc[t] = "done" <=> result[t] # NoResult
            /\ pc[t] = "done" => trace[t][Len(trace[t])].ev = "recv")
    /\ \A t \in Tasks : (pc[t] \in {"authorize", "request"}) ~> (pc[t] = "done")

C27_Witness ==
    \E t \in Tasks :
        /\ call[t].op = "void_payment"
        /\ pc[t] = "done"
        /\ Len(trace[t]) = 4
        /\ Cardinality(Received_(trace[t])) = 2
        /\ result[t].tag = "Ok"
        /\ tokenRequests = 2

\* The fields PaymentProcessed requires and PendingPayment does not.
ProcessedOnlyFields ==
    {"action_id", "amount", "currency", "approved", "response_code", "processed_on"}

\* C28: in create_payment the status alone chooses the variant.  A 201 whose
\* body lacks one of the fields only PaymentProcessed requires is an error,
\* not Pending, even when the body reads as PendingPayment; a 202 whose body
\* has the whole PaymentProcessed shape is Pending.
C28_VariantFollowsStatus ==
    \A t \in Tasks : call[t].op = "create_payment" =>
        \A a \in ResourceAnswers(t) :
            (a.kind = "response" /\ a.readable /\ from_str(a.body).kind = "object") =>
                LET fields == DOMAIN from_str(a.body).fields IN
                /\ (a.status = 201 /\ ~(ProcessedOnlyFields \subseteq fields)) =>
                      result[t].tag = "Err"
                /\ (a.status = 202 /\ {"id", "status"} \cup ProcessedOnlyFields \subseteq fields) =>
                      /\ result[t].tag = "Ok"
                      /\ result[t].value.variant = "Pending"

C28_Witness ==
    \E t \in Tasks :
        /\ call[t].op = "create_payment"
        /\ \E a \in ResourceAnswers(t) :
              a.kind = "response" /\ a.status = 201 /\ a.body = PendingJson
        /\ result[t] = Err(Transport("decode"))

\* C29: get_payment_details, get_payment_actions, capture_payment,
\* refund_payment and void_payment treat every non-2xx answer alike, whatever
\* its status: a body with request_id, error_type and error_codes is returned
\* as Api carrying it, any other body as Transport; once authorized, these
\* operations never return Unauthorized, InvalidData, TooManyRequests or
\* Unknown.
C29_NonSuccessIsApiOrTransport ==
    \A t \in Tasks : call[t].op \in GetOps \cup PostOps =>
        /\ \A a \in ResourceAnswers(t) :
              (a.kind = "response" /\ ~(a.status >= 200 /\ a.status < 300)) =>
                  IF StructuredError(a)
                  THEN /\ result[t].tag = "Err"
                       /\ result[t].error.variant = "Api"
                       /\ result[t].error.api.request_id = from_str(a.body).fields.request_id
                       /\ result[t].error.api.error_type = from_str(a.body).fields.error_type
                       /\ result[t].error.api.error_codes = from_str(a.body).fields.error_codes
                  ELSE /\ result[t].tag = "Err"
                       /\ result[t].error.variant = "Transport"
        /\ (SendsTo(trace[t], "resource") # {} /\ result[t].tag = "Err") =>
              result[t].error.variant \in {"Api", "Transport"}

C29_Witness ==
    \E t \in Tasks :
        /\ call[t].op = "capture_payment"
        /\ \E a \in ResourceAnswers(t) :
              a.kind = "response" /\ a.status = 429 /\ a.body = ErrorJson
        /\ result[t].tag = "Err"
        /\ result[t].error.variant = "Api"
        /\ result[t].error.api.request_id = "req_1"

\* C30: when authorization fails, the call returns the authorization error
\* and sends no resource request: Unauthorized for a status other than 200,
\* Transport for a failed send of the token request and for a 200 whose body
\* cannot be read or decoded into an access token.
C30_AuthorizationFailureIsReturned ==
    \A t \in Tasks : \A a \in TokenAnswers(t) :
        LET failure ==
              CASE a.kind = "error" -> [variant |-> "Transport", cause |-> a.cause]
                [] a.kind = "response" /\ a.status # 200 -> [variant |-> "Unauthorized"]
                [] a.kind = "response" /\ a.status = 200 /\ ~a.readable ->
                     [variant |-> "Transport", cause |-> "body"]
                [] a.kind = "response" /\ a.status = 200 /\ a.readable
                     /\ ~CarriesToken(a) -> [variant |-> "Transport", cause |-> "decode"]
                [] OTHER -> [variant |-> "none"]
        IN failure.variant # "none" =>
              /\ pc[t] = "done"
              /\ result[t] = [tag |-> "Err", error |-> failure]
              /\ SendsTo(trace[t], "resource") = {}

C30_Witness ==
    \E t \in Tasks :
        /\ call[t].op = "get_payment_details"
        /\ \E a \in TokenAnswers(t) :
              a.kind = "response" /\ a.status = 200 /\ a.body = ErrorJson
        /\ result[t] = Err(Transport("decode"))
        /\ SendsTo(trace[t], "resource") = {}

====
